---- MODULE Spec2Model ----
(***************************************************************************)
(* Coupon Management API (src/main.py): the in-memory coupon store, the    *)
(* per-user usage counters, the eligibility predicate, the discount        *)
(* calculator and the best-coupon selection.                               *)
(*                                                                         *)
(* Representation                                                          *)
(*   money     integers counting 1/10000 of a currency unit (100000 is     *)
(*             10.00, 40 is 0.004); the drawn prices and percentages keep   *)
(*             every product and quotient exact                             *)
(*   datetime  integers                                                    *)
(*   Optional  a sequence of length 0 (None) or 1 (the value)              *)
(*   str       codes are sequences of code points (compared as Python      *)
(*             compares str); tiers, countries, categories are strings     *)
(*   dict      COUPONS is the sequence of its values in insertion order    *)
(*             (the order .items() iterates in); USAGE is a function       *)
(*             whose domain is the set of keys present                     *)
(***************************************************************************)
EXTENDS Integers, Sequences, FiniteSets, TLC

VARIABLES COUPONS, USAGE, now, request, response, threads

vars == <<COUPONS, USAGE, now, request, response, threads>>

\* Latest reading of the clock the model lets now_utc() return.
MaxTime == 2

None == <<>>

Some(v) == <<v>>

\* Python truthiness of an Optional[List]: None and [] are both falsy.
Truthy(opt) == opt # None /\ opt[1] # {}

\* str.upper() on the strings the model draws.
Upper(s) ==
  CASE s = "gold" -> "GOLD"
    [] s = "Gold" -> "GOLD"
    [] s = "silver" -> "SILVER"
    [] s = "in" -> "IN"
    [] s = "us" -> "US"
    [] s = "books" -> "BOOKS"
    [] s = "Books" -> "BOOKS"
    [] s = "toys" -> "TOYS"
    [] OTHER -> s

UpperAll(S) == {Upper(s) : s \in S}

\* Python's < on str, by code points.
StrLess(a, b) ==
  \E i \in 1..(Len(a) + 1) :
    /\ i <= Len(b)
    /\ \A j \in 1..(i - 1) : a[j] = b[j]
    /\ (i = Len(a) + 1 \/ a[i] < b[i])

\* round(x, 2): to the nearest cent, a tie to the even cent (no amount the
\* model draws lies on a tie, where the float's binary value would decide).
Round2(x) ==
  LET q == x \div 100
      r == x % 100
  IN  IF r < 50 THEN q * 100
      ELSE IF r > 50 THEN (q + 1) * 100
      ELSE IF q % 2 = 0 THEN q * 100 ELSE (q + 1) * 100

----------------------------------------------------------------------------
\* Domain models

Eligibility(tiers, spend, orders, first, countries, cartv, appl, excl, items) ==
  [allowedUserTiers |-> tiers, minLifetimeSpend |-> spend,
   minOrdersPlaced |-> orders, firstOrderOnly |-> first,
   allowedCountries |-> countries, minCartValue |-> cartv,
   applicableCategories |-> appl, excludedCategories |-> excl,
   minItemsCount |-> items]

\* Eligibility(): every field at its default.
DefaultEligibility ==
  Eligibility(None, None, None, FALSE, None, None, None, None, None)

\* Coupon.validate_date_range
validate_date_range(coupon) == ~(coupon.endDate <= coupon.startDate)

\* The Field constraints and validators of Coupon and Eligibility.
ValidCoupon(coupon) ==
  /\ Len(coupon.code) >= 1 /\ Len(coupon.code) <= 64
  /\ coupon.discountValue > 0
  /\ (coupon.maxDiscountAmount # None => coupon.maxDiscountAmount[1] > 0)
  /\ validate_date_range(coupon)
  /\ coupon.usageLimitPerUser >= 1
  /\ LET e == coupon.eligibility
     IN  /\ (e.minLifetimeSpend # None => e.minLifetimeSpend[1] >= 0)
         /\ (e.minOrdersPlaced # None => e.minOrdersPlaced[1] >= 0)
         /\ (e.minCartValue # None => e.minCartValue[1] >= 0)
         /\ (e.minItemsCount # None => e.minItemsCount[1] >= 0)

RECURSIVE total_value(_)
\* Cart.total_value
total_value(cart) ==
  IF cart = <<>> THEN 0
  ELSE cart[1].unitPrice * cart[1].quantity + total_value(Tail(cart))

RECURSIVE total_items_count(_)
\* Cart.total_items_count
total_items_count(cart) ==
  IF cart = <<>> THEN 0
  ELSE cart[1].quantity + total_items_count(Tail(cart))

\* Cart.categories
categories(cart) == {cart[i].category : i \in 1..Len(cart)}

----------------------------------------------------------------------------
\* Utility functions

is_within_validity_strict(coupon, ref) ==
  coupon.startDate < ref /\ ref < coupon.endDate

is_within_validity(coupon, ref) ==
  coupon.startDate <= ref /\ ref <= coupon.endDate

\* USAGE.get(code, {}).get(user_id, 0), on a given usage store
usage_get(usage, code, user_id) ==
  IF code \in DOMAIN usage
  THEN IF user_id \in DOMAIN usage[code] THEN usage[code][user_id] ELSE 0
  ELSE 0

user_usage_for_coupon(code, user_id) == usage_get(USAGE, code, user_id)

OrEmpty(opt) == IF opt = None THEN "" ELSE opt[1]

check_eligibility(coupon, user, cart) ==
  LET e == coupon.eligibility
      cart_total == total_value(cart)
      cats == UpperAll(categories(cart))
  IN  /\ ~(/\ Truthy(e.allowedUserTiers)
           /\ Upper(OrEmpty(user.userTier)) \notin UpperAll(e.allowedUserTiers[1]))
      /\ ~(/\ Truthy(e.allowedCountries)
           /\ Upper(OrEmpty(user.country)) \notin UpperAll(e.allowedCountries[1]))
      /\ ~(e.firstOrderOnly /\ user.ordersPlaced # 0)
      /\ ~(e.minOrdersPlaced # None /\ user.ordersPlaced < e.minOrdersPlaced[1])
      /\ ~(e.minLifetimeSpend # None /\ user.lifetimeSpend < e.minLifetimeSpend[1])
      /\ ~(e.minCartValue # None /\ cart_total < e.minCartValue[1])
      /\ ~(e.minItemsCount # None /\ total_items_count(cart) < e.minItemsCount[1])
      /\ ~(/\ Truthy(e.applicableCategories)
           /\ cats \cap UpperAll(e.applicableCategories[1]) = {})
      /\ ~(/\ Truthy(e.excludedCategories)
           /\ cats \cap UpperAll(e.excludedCategories[1]) # {})

Min(a, b) == IF b < a THEN b ELSE a

Max(a, b) == IF b > a THEN b ELSE a

\* The discount before the final clamp (lines 186-192).
raw_discount(coupon, cart_value) ==
  IF coupon.discountType = "FLAT" THEN coupon.discountValue
  ELSE IF coupon.discountType = "PERCENT"
  THEN LET d == (cart_value * coupon.discountValue) \div 100
       IN  IF coupon.maxDiscountAmount # None
           THEN Min(d, coupon.maxDiscountAmount[1])
           ELSE d
  ELSE 0

calculate_discount_unclamped(coupon, cart) ==
  Max(0, raw_discount(coupon, total_value(cart)))

calculate_discount(coupon, cart) ==
  LET cart_value == total_value(cart)
  IN  Max(0, Min(raw_discount(coupon, cart_value), cart_value))

----------------------------------------------------------------------------
\* best_coupon

usage_limit_reached_off_by_one(usage, coupon, user) ==
  usage_get(usage, coupon.code, user.userId) > coupon.usageLimitPerUser

\* The usage test of the selection loop (line 212).
usage_limit_reached(usage, coupon, user) ==
  usage_get(usage, coupon.code, user.userId) >= coupon.usageLimitPerUser

\* The four tests of the selection loop: a coupon none of them skips is appended.
is_candidate(coupon, usage, user, cart, reference_time) ==
  /\ is_within_validity(coupon, reference_time)
  /\ ~usage_limit_reached(usage, coupon, user)
  /\ check_eligibility(coupon, user, cart)
  /\ ~(calculate_discount(coupon, cart) <= 0)

RECURSIVE candidates_of(_, _, _, _, _)
\* The loop over COUPONS.items(): the candidates, in iteration order.
candidates_of(coupons, usage, user, cart, reference_time) ==
  IF coupons = <<>> THEN <<>>
  ELSE LET coupon == coupons[1]
           rest == candidates_of(Tail(coupons), usage, user, cart, reference_time)
       IN  IF is_candidate(coupon, usage, user, cart, reference_time)
           THEN <<[coupon |-> coupon,
                   discount |-> Round2(calculate_discount(coupon, cart))]>> \o rest
           ELSE rest

sort_key_less_no_code(x, y) ==
  \/ -x.discount < -y.discount
  \/ /\ x.discount = y.discount
     /\ x.coupon.endDate < y.coupon.endDate

\* Python's < on the sort keys (-discount, endDate, code) of two candidates.
sort_key_less(x, y) ==
  \/ -x.discount < -y.discount
  \/ /\ x.discount = y.discount
     /\ x.coupon.endDate < y.coupon.endDate
  \/ /\ x.discount = y.discount
     /\ x.coupon.endDate = y.coupon.endDate
     /\ StrLess(x.coupon.code, y.coupon.code)

\* x put into the sorted sequence s after every element that is not greater.
InsertSorted(x, s) ==
  LET k == Cardinality({i \in 1..Len(s) : ~sort_key_less(x, s[i])})
  IN  SubSeq(s, 1, k) \o <<x>> \o SubSeq(s, k + 1, Len(s))

RECURSIVE sort_candidates(_)
\* list.sort(key=...): a stable sort, elements of equal key keep their order.
sort_candidates(s) ==
  IF s = <<>> THEN <<>>
  ELSE InsertSorted(s[Len(s)], sort_candidates(SubSeq(s, 1, Len(s) - 1)))

projected_usage_no_increment(usage, coupon, user) ==
  usage_get(usage, coupon.code, user.userId)

\* result["projectedUsageForUser"] (lines 243-244).
projected_usage(usage, coupon, user) ==
  usage_get(usage, coupon.code, user.userId) + 1

\* best_coupon, with the globals it reads (COUPONS, USAGE, now_utc()) as parameters.
best_coupon(coupons, usage, reference_time, user, cart, evaluate_usage_impact) ==
  LET candidates == candidates_of(coupons, usage, user, cart, reference_time)
  IN  IF candidates = <<>> THEN None
      ELSE LET top == sort_candidates(candidates)[1]
           IN  IF evaluate_usage_impact
               THEN Some([coupon |-> top.coupon,
                          computedDiscount |-> top.discount,
                          projectedUsageForUser |->
                            projected_usage(usage, top.coupon, user),
                          usageLimitPerUser |-> top.coupon.usageLimitPerUser])
               ELSE Some([coupon |-> top.coupon,
                          computedDiscount |-> top.discount])

\* dict.get(key) on a result dict: None when the key is absent.
DictGet(d, key) == IF key \in DOMAIN d THEN Some(d[key]) ELSE None

\* d with d[k] = v
DictSet(d, k, v) == [x \in (DOMAIN d) \cup {k} |-> IF x = k THEN v ELSE d[x]]

----------------------------------------------------------------------------
\* Inputs the requests are drawn from

Codes == {<<65>>, <<65, 66>>}

GoldOnly ==
  Eligibility(Some({"gold"}), None, None, FALSE, None, None, None, None, None)

\* The terms a coupon is created with: FLAT 5.00, once per user, for GOLD users
\* only; or 50%, twice per user, for everybody.
Terms == {[discountType |-> "FLAT", discountValue |-> 50000,
           maxDiscountAmount |-> None, usageLimitPerUser |-> 1,
           eligibility |-> GoldOnly],
          [discountType |-> "PERCENT", discountValue |-> 50,
           maxDiscountAmount |-> None, usageLimitPerUser |-> 2,
           eligibility |-> DefaultEligibility]}

\* (startDate, endDate); the last one fails validate_date_range.
Windows == {<<1, 2>>, <<0, 1>>, <<1, 1>>}

CouponInputs ==
  {[code |-> c, discountType |-> t.discountType,
    discountValue |-> t.discountValue,
    maxDiscountAmount |-> t.maxDiscountAmount,
    startDate |-> w[1], endDate |-> w[2],
    usageLimitPerUser |-> t.usageLimitPerUser,
    eligibility |-> t.eligibility] :
   c \in Codes, t \in Terms, w \in Windows}

UserOf(id, tier) ==
  [userId |-> id, userTier |-> tier, country |-> None,
   lifetimeSpend |-> 0, ordersPlaced |-> 0]

Users == {UserOf("u1", Some("Gold")), UserOf("u2", None)}

Item(category, unitPrice, quantity) ==
  [category |-> category, unitPrice |-> unitPrice, quantity |-> quantity]

\* A cart worth 0.004 and a cart worth 20.00.
Carts == {<<Item("books", 40, 1)>>, <<Item("books", 100000, 2)>>}

BestCouponInputs ==
  [user : Users, cart : Carts, evaluateUsageImpact : BOOLEAN]

----------------------------------------------------------------------------
\* Storage and routes

CodesStored == {COUPONS[i].code : i \in 1..Len(COUPONS)}

\* COUPONS[code]
CouponAt(code) == CHOOSE c \in {COUPONS[i] : i \in 1..Len(COUPONS)} : c.code = code

NoRequest == [op |-> "none"]

NoResponse == [status |-> 0]

Init ==
  /\ COUPONS = <<>>
  /\ USAGE = <<>>
  /\ now = 0
  /\ request = NoRequest
  /\ response = NoResponse
  /\ threads = <<>>

\* Time passes between requests: now_utc() returns a later instant to the next
\* one, and the last exchange is over.
Tick ==
  /\ now < MaxTime
  /\ now' = now + 1
  /\ request' = NoRequest
  /\ response' = NoResponse
  /\ UNCHANGED <<COUPONS, USAGE, threads>>

create_coupon(coupon) ==
  /\ request' = [op |-> "create_coupon"]
  /\ IF ~ValidCoupon(coupon)
     THEN /\ response' = [status |-> 422]
          /\ UNCHANGED <<COUPONS, USAGE>>
     ELSE IF coupon.code \in CodesStored
     THEN /\ response' = [status |-> 400]
          /\ UNCHANGED <<COUPONS, USAGE>>
     ELSE /\ COUPONS' = Append(COUPONS, coupon)
          /\ USAGE' = IF coupon.code \notin DOMAIN USAGE
                      THEN DictSet(USAGE, coupon.code, <<>>)
                      ELSE USAGE
          /\ response' = [status |-> 201]
  /\ UNCHANGED <<now, threads>>

\* The JSON body get_best_coupon builds from best_coupon's result.
best_coupon_body(result, payload) ==
  IF result = None THEN [bestCoupon |-> None]
  ELSE IF payload.evaluateUsageImpact
  THEN [bestCoupon |-> Some(result[1].coupon),
        computedDiscount |-> result[1].computedDiscount,
        projectedUsageForUser |-> DictGet(result[1], "projectedUsageForUser"),
        usageLimitPerUser |-> DictGet(result[1], "usageLimitPerUser")]
  ELSE [bestCoupon |-> Some(result[1].coupon),
        computedDiscount |-> result[1].computedDiscount]

get_best_coupon_applying_projection(payload) ==
  LET result == best_coupon(COUPONS, USAGE, now, payload.user, payload.cart,
                            payload.evaluateUsageImpact)
  IN  /\ request' = [op |-> "get_best_coupon", payload |-> payload]
      /\ response' = [status |-> 200, body |-> best_coupon_body(result, payload)]
      /\ USAGE' = IF result # None /\ payload.evaluateUsageImpact
                  THEN DictSet(USAGE, result[1].coupon.code,
                         DictSet(USAGE[result[1].coupon.code],
                                 payload.user.userId,
                                 result[1].projectedUsageForUser))
                  ELSE USAGE
      /\ UNCHANGED <<COUPONS, now, threads>>

get_best_coupon(payload) ==
  LET result == best_coupon(COUPONS, USAGE, now, payload.user, payload.cart,
                            payload.evaluateUsageImpact)
  IN  /\ request' = [op |-> "get_best_coupon", payload |-> payload]
      /\ response' = [status |-> 200, body |-> best_coupon_body(result, payload)]
      /\ UNCHANGED <<COUPONS, USAGE, now, threads>>

use_coupon_off_by_one(code, body) ==
  /\ request' = [op |-> "use_coupon", code |-> code, userId |-> body.userId]
  /\ IF code \notin CodesStored
     THEN /\ response' = [status |-> 404]
          /\ UNCHANGED USAGE
     ELSE LET current == user_usage_for_coupon(code, body.userId)
              limit == CouponAt(code).usageLimitPerUser
          IN  IF current > limit
              THEN /\ response' = [status |-> 429]
                   /\ UNCHANGED USAGE
              ELSE /\ USAGE' = DictSet(USAGE, code,
                                 DictSet(IF code \in DOMAIN USAGE
                                         THEN USAGE[code] ELSE <<>>,
                                         body.userId, current + 1))
                   /\ response' = [status |-> 200, newUsage |-> current + 1,
                                   limit |-> limit]
  /\ UNCHANGED <<COUPONS, now, threads>>

use_coupon(code, body) ==
  /\ request' = [op |-> "use_coupon", code |-> code, userId |-> body.userId]
  /\ IF code \notin CodesStored
     THEN /\ response' = [status |-> 404]
          /\ UNCHANGED USAGE
     ELSE LET current == user_usage_for_coupon(code, body.userId)
              limit == CouponAt(code).usageLimitPerUser
          IN  IF current >= limit
              THEN /\ response' = [status |-> 429]
                   /\ UNCHANGED USAGE
              ELSE /\ USAGE' = DictSet(USAGE, code,
                                 DictSet(IF code \in DOMAIN USAGE
                                         THEN USAGE[code] ELSE <<>>,
                                         body.userId, current + 1))
                   /\ response' = [status |-> 200, newUsage |-> current + 1,
                                   limit |-> limit]
  /\ UNCHANGED <<COUPONS, now, threads>>

CreateCoupon == \E coupon \in CouponInputs : create_coupon(coupon)

GetBestCoupon == \E payload \in BestCouponInputs : get_best_coupon(payload)

UseCoupon == \E code \in Codes, body \in Users : use_coupon(code, body)

Next == CreateCoupon \/ GetBestCoupon \/ UseCoupon \/ Tick

Spec == Init /\ [][Next]_vars

----------------------------------------------------------------------------
\* Properties of the selection, stated on the response of the last
\* get_best_coupon request and the store it was answered from.

BestRequested == request.op = "get_best_coupon"

ReqUser == request.payload.user

ReqCart == request.payload.cart

Winner == response.body.bestCoupon

StoredCoupons == {COUPONS[i] : i \in 1..Len(COUPONS)}

RoundedDiscount(coupon) == Round2(calculate_discount(coupon, ReqCart))

\* The coupons that pass validity, usage, eligibility and the discount test for
\* the request.
RequestCandidates ==
  {c \in StoredCoupons : is_candidate(c, USAGE, ReqUser, ReqCart, now)}

\* The tie-break chain: c comes strictly before d.
ChainBefore(c, d) ==
  \/ RoundedDiscount(c) > RoundedDiscount(d)
  \/ RoundedDiscount(c) = RoundedDiscount(d) /\ c.endDate < d.endDate
  \/ /\ RoundedDiscount(c) = RoundedDiscount(d)
     /\ c.endDate = d.endDate
     /\ StrLess(c.code, d.code)

\* Every order the same coupons could have been inserted in.
InsertionOrders ==
  LET n == Len(COUPONS)
      Bijections == {f \in [1..n -> 1..n] : \A i, j \in 1..n : f[i] = f[j] => i = j}
  IN  {[i \in 1..n |-> COUPONS[f[i]]] : f \in Bijections}

\* Stores of up to three coupons, in every insertion order: the codes "A", "AB"
\* and "B", each with any of the terms and either valid window.
SelectCoupons ==
  {[c EXCEPT !.code = code] :
     c \in {x \in CouponInputs : ValidCoupon(x)},
     code \in {<<65>>, <<65, 66>>, <<66>>}}

SelectStores ==
  {s \in UNION {[1..n -> SelectCoupons] : n \in 0..3} :
     \A i, j \in 1..Len(s) : s[i].code = s[j].code => i = j}

\* A store after create_coupon requests, and use_coupon requests by which user
\* u1 has used up the coupons of `exhausted`.
InitSelect ==
  /\ COUPONS \in SelectStores
  /\ \E exhausted \in SUBSET {COUPONS[i].code : i \in 1..Len(COUPONS)} :
       USAGE = [code \in {COUPONS[i].code : i \in 1..Len(COUPONS)} |->
                  IF code \in exhausted
                  THEN DictSet(<<>>, "u1",
                               (CHOOSE c \in {COUPONS[i] : i \in 1..Len(COUPONS)} :
                                  c.code = code).usageLimitPerUser)
                  ELSE <<>>]
  /\ now \in 0..MaxTime
  /\ request = NoRequest
  /\ response = NoResponse
  /\ threads = <<>>

SpecSelect == InitSelect /\ [][GetBestCoupon]_vars

\* C1: the coupon returned is the candidate that is first under the chain
\* (higher rounded discount, then earlier endDate, then smaller code), none is
\* returned exactly when there is no candidate, and the response is the same for
\* every order the coupons could have been inserted in.
C1_WinnerIsFirstUnderChain ==
  BestRequested =>
    /\ (Winner = None) = (RequestCandidates = {})
    /\ Winner # None =>
         /\ Winner[1] \in RequestCandidates
         /\ \A d \in RequestCandidates \ {Winner[1]} : ChainBefore(Winner[1], d)
    /\ \A order \in InsertionOrders :
         best_coupon_body(best_coupon(order, USAGE, now, ReqUser, ReqCart,
                                      request.payload.evaluateUsageImpact),
                          request.payload) = response.body

\* Three candidates: the first inserted has the smaller discount, the other two
\* tie on discount and endDate, and the winner is the one inserted last.
C1_Witness ==
  /\ BestRequested
  /\ Len(COUPONS) = 3
  /\ RequestCandidates = StoredCoupons
  /\ RoundedDiscount(COUPONS[1]) < RoundedDiscount(COUPONS[2])
  /\ RoundedDiscount(COUPONS[2]) = RoundedDiscount(COUPONS[3])
  /\ COUPONS[2].endDate = COUPONS[3].endDate
  /\ Winner = Some(COUPONS[3])

\* C2: the coupon returned is never one the requesting user has already used
\* usageLimitPerUser times (or more).
C2_WinnerBelowUsageLimit ==
  BestRequested /\ Winner # None =>
    usage_get(USAGE, Winner[1].code, ReqUser.userId) < Winner[1].usageLimitPerUser

\* A coupon the user has used up, which passes every other test, is stored and
\* is not the one returned.
C2_Witness ==
  /\ BestRequested
  /\ \E c \in StoredCoupons :
       /\ usage_get(USAGE, c.code, ReqUser.userId) = c.usageLimitPerUser
       /\ c.usageLimitPerUser = 2
       /\ is_within_validity(c, now)
       /\ check_eligibility(c, ReqUser, ReqCart)
       /\ calculate_discount(c, ReqCart) > 0
       /\ Winner # Some(c)

\* C3: the coupon returned is never outside its window (now < startDate or
\* now > endDate), and a coupon that passes the usage, eligibility and discount
\* tests is in the running when now is exactly its startDate or its endDate: a
\* coupon is returned, and it is that coupon or one the chain puts before it.
C3_ValidityWindowInclusive ==
  BestRequested =>
    /\ Winner # None =>
         ~(now < Winner[1].startDate) /\ ~(now > Winner[1].endDate)
    /\ \A c \in StoredCoupons :
         /\ now = c.startDate \/ now = c.endDate
         /\ usage_get(USAGE, c.code, ReqUser.userId) < c.usageLimitPerUser
         /\ check_eligibility(c, ReqUser, ReqCart)
         /\ calculate_discount(c, ReqCart) > 0
      => /\ Winner # None
         /\ Winner[1] = c \/ ChainBefore(Winner[1], c)

\* The coupon returned is at its endDate while another stored coupon has expired.
C3_Witness ==
  /\ BestRequested
  /\ Winner # None
  /\ now = Winner[1].endDate
  /\ \E c \in StoredCoupons : now > c.endDate

\* C4: every response that names a coupon has computedDiscount > 0.
C4_ComputedDiscountPositive ==
  BestRequested /\ Winner # None => response.body.computedDiscount > 0

\* C6: a get_best_coupon request leaves COUPONS and USAGE as they were.
C6_BestCouponLeavesStore ==
  [][request'.op = "get_best_coupon" => COUPONS' = COUPONS /\ USAGE' = USAGE]_vars

\* A projection was requested and answered with a coupon the user has used before.
C6_Witness ==
  /\ BestRequested
  /\ request.payload.evaluateUsageImpact
  /\ Winner # None
  /\ usage_get(USAGE, Winner[1].code, ReqUser.userId) = 1

\* C8: with the projection requested and a coupon returned, the response carries
\* the user's stored usage count for that coupon plus one, and the coupon's
\* usageLimitPerUser; without the projection requested it carries neither field.
C8_UsageProjection ==
  BestRequested =>
    /\ request.payload.evaluateUsageImpact /\ Winner # None =>
         /\ response.body.projectedUsageForUser =
              Some(usage_get(USAGE, Winner[1].code, ReqUser.userId) + 1)
         /\ response.body.usageLimitPerUser = Some(Winner[1].usageLimitPerUser)
    /\ ~request.payload.evaluateUsageImpact =>
         /\ "projectedUsageForUser" \notin DOMAIN response.body
         /\ "usageLimitPerUser" \notin DOMAIN response.body

\* The projection of a coupon used once: 2 of 2.
C8_Witness ==
  /\ BestRequested
  /\ request.payload.evaluateUsageImpact
  /\ Winner # None
  /\ response.body.projectedUsageForUser = Some(2)
  /\ response.body.usageLimitPerUser = Some(2)

UserIds == {u.userId : u \in Users}

\* C9: every stored usage count is at least 0 and at most its coupon's
\* usageLimitPerUser, no step decreases one, and a use_coupon request for a pair
\* already at the limit is answered 429 and leaves USAGE unchanged.
C9_UsageWithinLimit ==
  /\ [](\A code \in Codes, u \in UserIds :
          /\ usage_get(USAGE, code, u) >= 0
          /\ code \in CodesStored =>
               usage_get(USAGE, code, u) <= CouponAt(code).usageLimitPerUser
          /\ code \notin CodesStored => usage_get(USAGE, code, u) = 0)
  /\ [][/\ \A code \in Codes, u \in UserIds :
             usage_get(USAGE', code, u) >= usage_get(USAGE, code, u)
        /\ (/\ request'.op = "use_coupon"
            /\ request'.code \in CodesStored
            /\ usage_get(USAGE, request'.code, request'.userId)
                 >= CouponAt(request'.code).usageLimitPerUser)
           => response'.status = 429 /\ USAGE' = USAGE]_vars

\* A use_coupon request was refused for a pair that had used the coupon twice.
C9_Witness ==
  /\ request.op = "use_coupon"
  /\ response.status = 429
  /\ usage_get(USAGE, request.code, request.userId) = 2

----------------------------------------------------------------------------
\* calculate_discount as a function of its inputs

CouponWith(discountType, discountValue, maxDiscountAmount, eligibility) ==
  [code |-> <<65>>, discountType |-> discountType,
   discountValue |-> discountValue, maxDiscountAmount |-> maxDiscountAmount,
   startDate |-> 1, endDate |-> 2, usageLimitPerUser |-> 1,
   eligibility |-> eligibility]

\* FLAT 0.002, 5.00 and 3000.00; 10%, 50%, 100% and 150%; each without a cap,
\* capped at 0.002 and capped at 5.00.
CalcCoupons ==
  {CouponWith("FLAT", v, cap, DefaultEligibility) :
     v \in {20, 50000, 30000000}, cap \in {None, Some(20), Some(50000)}}
  \cup
  {CouponWith("PERCENT", v, cap, DefaultEligibility) :
     v \in {10, 50, 100, 150}, cap \in {None, Some(20), Some(50000)}}

\* The empty cart, a free item, 0.004, 10.00 and 30.004.
CalcCarts ==
  {<<>>,
   <<Item("books", 0, 3)>>,
   <<Item("books", 40, 1)>>,
   <<Item("books", 100000, 1)>>,
   <<Item("books", 100000, 3), Item("toys", 40, 1)>>}

InitCalc ==
  /\ COUPONS = <<>>
  /\ USAGE = <<>>
  /\ now = 0
  /\ request \in [op : {"calculate_discount"}, coupon : CalcCoupons,
                  cart : CalcCarts]
  /\ response = NoResponse
  /\ threads = <<>>

CalculateDiscount ==
  /\ request.op = "calculate_discount"
  /\ response = NoResponse
  /\ response' = [status |-> 200,
                  value |-> calculate_discount(request.coupon, request.cart)]
  /\ UNCHANGED <<COUPONS, USAGE, now, request, threads>>

SpecCalc == InitCalc /\ [][CalculateDiscount]_vars

\* C5: for every coupon and every cart, the empty cart included,
\* calculate_discount returns d with 0 <= d <= the cart's total value.
C5_DiscountClamped ==
  request.op = "calculate_discount" /\ response # NoResponse =>
    /\ 0 <= response.value
    /\ response.value <= total_value(request.cart)

\* The discount before the clamp exceeded a cart that is worth something.
C5_Witness ==
  /\ request.op = "calculate_discount"
  /\ response # NoResponse
  /\ total_value(request.cart) > 0
  /\ raw_discount(request.coupon, total_value(request.cart))
       > total_value(request.cart)
  /\ response.value = total_value(request.cart)

----------------------------------------------------------------------------
\* check_eligibility as a function of its inputs

EligibilityInputs ==
  {Eligibility(tiers, spend, orders, first, countries, cartv, appl, excl, items) :
     tiers \in {None, Some({}), Some({""}), Some({"gold"}),
                Some({"GOLD", "silver"})},
     spend \in {None, Some(1000000)},
     orders \in {None, Some(1)},
     first \in BOOLEAN,
     countries \in {None, Some({"in"})},
     cartv \in {None, Some(100000)},
     appl \in {None, Some({"Books"})},
     excl \in {None, Some({"toys"})},
     items \in {None, Some(2)}}

EligUsers ==
  {[userId |-> "u1", userTier |-> tier, country |-> country,
    lifetimeSpend |-> spend, ordersPlaced |-> orders] :
     tier \in {None, Some(""), Some("Gold"), Some("silver")},
     country \in {None, Some("IN")},
     spend \in {0, 1000000},
     orders \in {0, 2}}

EligCarts ==
  {<<>>,
   <<Item("books", 100000, 1)>>,
   <<Item("BOOKS", 40, 1), Item("Toys", 100000, 1)>>}

InitElig ==
  /\ COUPONS = <<>>
  /\ USAGE = <<>>
  /\ now = 0
  /\ request \in [op : {"check_eligibility"},
                  coupon : {CouponWith("FLAT", 50000, None, e) :
                              e \in EligibilityInputs},
                  user : EligUsers, cart : EligCarts]
  /\ response = NoResponse
  /\ threads = <<>>

CheckEligibility ==
  /\ request.op = "check_eligibility"
  /\ response = NoResponse
  /\ response' = [status |-> 200,
                  value |-> check_eligibility(request.coupon, request.user,
                                              request.cart)]
  /\ UNCHANGED <<COUPONS, USAGE, now, request, threads>>

SpecElig == InitElig /\ [][CheckEligibility]_vars

\* C7: when the coupon's allowed-tiers set is present, check_eligibility returns
\* true only if the user's tier, compared case-insensitively, is a member of it;
\* a user whose tier is absent or the empty string is ineligible.
C7_TierMembershipRequired ==
  /\ request.op = "check_eligibility"
  /\ response # NoResponse
  /\ request.coupon.eligibility.allowedUserTiers # None
  /\ response.value
  => /\ request.user.userTier # None
     /\ request.user.userTier # Some("")
     /\ Upper(request.user.userTier[1]) \in
          UpperAll(request.coupon.eligibility.allowedUserTiers[1])

----------------------------------------------------------------------------
\* use_coupon requests served concurrently (the routes are plain def functions,
\* which the framework runs on a pool of worker threads): each request reads,
\* compares and writes in separate steps.

Threads == {1, 2, 3}

IdleThread == [pc |-> "idle"]

\* A store after one create_coupon.
InitConc ==
  /\ \E c \in {x \in CouponInputs : ValidCoupon(x) /\ x.code = <<65>>} :
       /\ COUPONS = <<c>>
       /\ USAGE = DictSet(<<>>, c.code, <<>>)
  /\ now = 0
  /\ request = NoRequest
  /\ response = NoResponse
  /\ threads = [t \in Threads |-> IdleThread]

\* Lines 309-313: the lookup of the code, and the reads of the count and the limit.
use_coupon_read(t, code, body) ==
  /\ threads[t].pc = "idle"
  /\ threads' =
       [threads EXCEPT ![t] =
          IF code \notin CodesStored
          THEN [pc |-> "done", code |-> code, userId |-> body.userId,
                status |-> 404]
          ELSE [pc |-> "compare", code |-> code, userId |-> body.userId,
                current |-> user_usage_for_coupon(code, body.userId),
                limit |-> CouponAt(code).usageLimitPerUser]]
  /\ UNCHANGED <<COUPONS, USAGE, now, request, response>>

\* Lines 314-315: the comparison with the limit.
use_coupon_compare(t) ==
  /\ threads[t].pc = "compare"
  /\ threads' =
       [threads EXCEPT ![t] =
          IF threads[t].current >= threads[t].limit
          THEN [pc |-> "done", code |-> threads[t].code,
                userId |-> threads[t].userId, status |-> 429]
          ELSE [threads[t] EXCEPT !.pc = "write"]]
  /\ UNCHANGED <<COUPONS, USAGE, now, request, response>>

\* Lines 316-317: the write of current + 1, and the 200 response.
use_coupon_write(t) ==
  /\ threads[t].pc = "write"
  /\ USAGE' = DictSet(USAGE, threads[t].code,
                DictSet(IF threads[t].code \in DOMAIN USAGE
                        THEN USAGE[threads[t].code] ELSE <<>>,
                        threads[t].userId, threads[t].current + 1))
  /\ threads' =
       [threads EXCEPT ![t] =
          [pc |-> "done", code |-> threads[t].code,
           userId |-> threads[t].userId, status |-> 200]]
  /\ UNCHANGED <<COUPONS, now, request, response>>

UseCouponRead ==
  \E t \in Threads, code \in Codes, body \in Users : use_coupon_read(t, code, body)

UseCouponCompare == \E t \in Threads : use_coupon_compare(t)

UseCouponWrite == \E t \in Threads : use_coupon_write(t)

NextConc == UseCouponRead \/ UseCouponCompare \/ UseCouponWrite

SpecConc == InitConc /\ [][NextConc]_vars

\* The requests that succeeded for a pair.
Succeeded(code, userId) ==
  {t \in Threads : /\ threads[t].pc = "done"
                   /\ threads[t].status = 200
                   /\ threads[t].code = code
                   /\ threads[t].userId = userId}

\* C10: however the use_coupon requests for a pair interleave, no more of them
\* succeed than the coupon's usageLimitPerUser.
C10_SuccessesWithinLimit ==
  \A code \in CodesStored, u \in UserIds :
    Cardinality(Succeeded(code, u)) <= CouponAt(code).usageLimitPerUser

====
